---- MODULE Spec2Model ----
(***************************************************************************)
(* Model of the xv6 per-CPU physical page allocator (kernel/kalloc.c) and  *)
(* of the bucketed buffer cache (kernel/bio.c).                            *)
(*                                                                         *)
(* Every CPU / thread is a process with a program counter.  A step is one  *)
(* spinlock acquisition, or the code a thread runs between two blocking    *)
(* points while it holds the spinlock(s) protecting what it touches.       *)
(***************************************************************************)
EXTENDS Integers, Sequences, FiniteSets, TLC

\* ------------------------------------------------------------------ bounds
NCPU == 2          \* execution units with a kmem free list
NFRAMES == 3       \* page frames handed to freerange by kinit
MaxRef == 2        \* cap of the client-side reference counter

NBUF == 2          \* cache slots (param.h NBUF)
NBUCKET == 2       \* hash buckets (param.h NBUCKET)
NTHREADS == 2      \* kernel threads using the buffer cache
NDEV == 1          \* device numbers 0 .. NDEV-1 that callers ask for
NBLOCK == 3        \* block numbers 0 .. NBLOCK-1 that callers ask for
MaxPins == 1       \* outstanding bpin calls per slot
MaxReads == 2      \* the disk read counter stops counting here
NVAL == 2          \* block contents 0 .. NVAL-1

CPUs == 0 .. (NCPU - 1)
Frames == 1 .. NFRAMES
NoCpu == -1        \* spinlock not held
Junk == -1         \* a next field overwritten by memset: not a frame, not 0

VARIABLES
  kmems_freelist,  \* kmems[c].freelist: head frame or 0
  kmems_lock,      \* kmems[c].lock: holding cpu or NoCpu
  run_next,        \* ((struct run*)f)->next: frame or 0
  kpc,             \* position of each cpu inside kalloc/kfree
  k_r,             \* local r of kalloc
  k_k2,            \* local k2 of steal (index into kmems); NCPU after the loop
  k_pa,            \* argument pa of kfree
  refcount,        \* references the callers hold on each frame
  call_free,       \* frames that were free when the cpu's kalloc was called
  call_alone       \* no other cpu ran an operation since the kalloc was called

kvars == <<kmems_freelist, kmems_lock, run_next, kpc, k_r, k_k2, k_pa,
           refcount, call_free, call_alone>>

Bufs == 1 .. NBUF
Buckets == 0 .. (NBUCKET - 1)
Threads == 1 .. NTHREADS
Devs == 0 .. (NDEV - 1)
Blocks == 0 .. (NBLOCK - 1)
Vals == 0 .. (NVAL - 1)
NoThread == 0      \* lock not held

\* &bcache.bucket[k].head as a list node; slots are the nodes 1 .. NBUF
HeadOf(k) == 0 - (k + 1)
Nodes == Bufs \cup {HeadOf(k) : k \in Buckets}

VARIABLES
  b_next, b_prev,  \* buf.next, buf.prev of every slot and every bucket head
  b_dev, b_blockno, b_valid, b_refcnt,   \* fields of struct buf
  b_lock,          \* buf.lock (sleeplock): holding thread or NoThread
  bucket_lock,     \* bucket.lock (spinlock): holding thread or NoThread
  tpc,             \* position of each thread inside bio.c
  t_dev, t_blockno,\* arguments dev, blockno of bget
  t_b,             \* local / argument b
  t_bucket,        \* local bucket (index)
  t_p,             \* local p of bget (index)
  pins,            \* bpin calls on a slot not yet undone by bunpin
  returned,        \* slots that bget has returned so far
  disk_reads,      \* virtio_disk_rw(b, 0) calls so far, up to MaxReads
  disk,            \* the block contents the disk driver holds
  b_data,          \* buf.data
  t_dirty          \* the holder changed b->data and has not called bwrite since

\* the disk, the buffer contents and what the callers did with them
dvars == <<disk, b_data, t_dirty>>

bvars == <<b_next, b_prev, b_dev, b_blockno, b_valid, b_refcnt, b_lock,
           bucket_lock, tpc, t_dev, t_blockno, t_b, t_bucket, t_p, pins,
           returned, disk_reads, dvars>>

vars == <<kvars, bvars>>

\* ------------------------------------------------------------- free lists
RECURSIVE Walk(_, _)
\* the frames reached from r through r->next, at most fuel of them
Walk(r, fuel) ==
  IF r \notin Frames \/ fuel = 0 THEN <<>>
  ELSE <<r>> \o Walk(run_next[r], fuel - 1)

\* the free list of cpu c as a sequence (one extra step exposes a cycle)
FreeSeq(c) == Walk(kmems_freelist[c], NFRAMES + 1)

Range(s) == {s[i] : i \in 1 .. Len(s)}

FreeFrames == UNION {Range(FreeSeq(c)) : c \in CPUs}

Outstanding == {f \in Frames : refcount[f] >= 1}

KQuiescent == \A c \in CPUs : kpc[c] = "idle"

\* steal, lines 38-40: the next kmem at or after `from` that is not the caller's
NextVictim(c, from) ==
  IF \E k \in from .. (NCPU - 1) : k # c
  THEN CHOOSE k \in from .. (NCPU - 1) :
         k # c /\ \A j \in from .. (NCPU - 1) : j # c => k <= j
  ELSE NCPU

\* kinit/freerange: every frame is freed on the boot cpu 0, in ascending order
KInit ==
  /\ kmems_freelist = [c \in CPUs |-> IF c = 0 THEN NFRAMES ELSE 0]
  /\ kmems_lock = [c \in CPUs |-> NoCpu]
  /\ run_next = [f \in Frames |-> f - 1]
  /\ kpc = [c \in CPUs |-> "idle"]
  /\ k_r = [c \in CPUs |-> 0]
  /\ k_k2 = [c \in CPUs |-> 0]
  /\ k_pa = [c \in CPUs |-> 0]
  /\ refcount = [f \in Frames |-> 0]
  /\ call_free = [c \in CPUs |-> {}]
  /\ call_alone = [c \in CPUs |-> FALSE]

\* another cpu starts an operation: running kallocs are no longer alone
Disturb(c) == [d \in CPUs |-> IF d = c THEN call_alone[d] ELSE FALSE]

\* ------------------------------------------------------------------ kalloc
\* kalloc lines 111-113: push_off, k = &kmems[cpuid()]
KallocCall(c) ==
  /\ kpc[c] = "idle"
  /\ kpc' = [kpc EXCEPT ![c] = "kalloc_acquire"]
  /\ k_r' = [k_r EXCEPT ![c] = 0]
  /\ k_k2' = [k_k2 EXCEPT ![c] = 0]
  /\ call_free' = [call_free EXCEPT ![c] = FreeFrames]
  /\ call_alone' = [Disturb(c) EXCEPT ![c] = KQuiescent]
  /\ UNCHANGED bvars
  /\ UNCHANGED <<kmems_freelist, kmems_lock, run_next, k_pa, refcount>>

\* kalloc lines 115-119: acquire(&k->lock); r = k->freelist; if(r == 0) steal()
KallocAcquire(c) ==
  /\ kpc[c] = "kalloc_acquire"
  /\ kmems_lock[c] = NoCpu
  /\ kmems_lock' = [kmems_lock EXCEPT ![c] = c]
  /\ k_r' = [k_r EXCEPT ![c] = kmems_freelist[c]]
  /\ IF kmems_freelist[c] = 0
     THEN /\ k_k2' = [k_k2 EXCEPT ![c] = NextVictim(c, 0)]
          /\ kpc' = [kpc EXCEPT ![c] =
                IF NextVictim(c, 0) = NCPU THEN "kalloc_pop" ELSE "steal_acquire"]
     ELSE /\ kpc' = [kpc EXCEPT ![c] = "kalloc_pop"]
          /\ UNCHANGED k_k2
  /\ UNCHANGED bvars
  /\ UNCHANGED <<kmems_freelist, run_next, k_pa, refcount, call_free, call_alone>>

\* steal line 41: acquire(&k2->lock), with the caller's own lock still held
StealAcquire(c) ==
  /\ kpc[c] = "steal_acquire"
  /\ kmems_lock[k_k2[c]] = NoCpu
  /\ kmems_lock' = [kmems_lock EXCEPT ![k_k2[c]] = c]
  /\ kpc' = [kpc EXCEPT ![c] = "steal_locked"]
  /\ UNCHANGED bvars
  /\ UNCHANGED <<kmems_freelist, run_next, k_r, k_k2, k_pa, refcount,
                 call_free, call_alone>>

\* steal without line 44: the frame stays at the head of k2's list
StealMove_keep(c) ==
  /\ kpc[c] = "steal_locked"
  /\ LET k2 == k_k2[c]
         r == kmems_freelist[k2]
         nk == NextVictim(c, k2 + 1)
     IN IF r = Junk
        THEN /\ kpc' = [kpc EXCEPT ![c] = "fault"]
             /\ UNCHANGED <<kmems_freelist, run_next, kmems_lock, k_k2>>
        ELSE /\ IF r # 0
                THEN /\ kmems_freelist' = [kmems_freelist EXCEPT ![c] = r]
                     /\ run_next' = [run_next EXCEPT ![r] = kmems_freelist[c]]
                ELSE UNCHANGED <<kmems_freelist, run_next>>
             /\ kmems_lock' = [kmems_lock EXCEPT ![k2] = NoCpu]
             /\ k_k2' = [k_k2 EXCEPT ![c] = nk]
             /\ kpc' = [kpc EXCEPT ![c] =
                   IF nk = NCPU THEN "kalloc_pop" ELSE "steal_acquire"]
  /\ UNCHANGED bvars
  /\ UNCHANGED <<k_r, k_pa, refcount, call_free, call_alone>>

\* steal lines 42-48: move the head of k2's list to the caller's list
StealMove(c) ==
  /\ kpc[c] = "steal_locked"
  /\ LET k2 == k_k2[c]
         r == kmems_freelist[k2]
         nk == NextVictim(c, k2 + 1)
     IN IF r = Junk
        THEN \* r->next dereferences a junk pointer: the kernel traps
             /\ kpc' = [kpc EXCEPT ![c] = "fault"]
             /\ UNCHANGED <<kmems_freelist, run_next, kmems_lock, k_k2>>
        ELSE /\ IF r # 0
                THEN /\ kmems_freelist' = [kmems_freelist EXCEPT
                           ![k2] = run_next[r], ![c] = r]
                     /\ run_next' = [run_next EXCEPT ![r] = kmems_freelist[c]]
                ELSE UNCHANGED <<kmems_freelist, run_next>>
             /\ kmems_lock' = [kmems_lock EXCEPT ![k2] = NoCpu]
             /\ k_k2' = [k_k2 EXCEPT ![c] = nk]
             /\ kpc' = [kpc EXCEPT ![c] =
                   IF nk = NCPU THEN "kalloc_pop" ELSE "steal_acquire"]
  /\ UNCHANGED bvars
  /\ UNCHANGED <<k_r, k_pa, refcount, call_free, call_alone>>

\* kalloc without line 121: r keeps the value read before steal
KallocPop_noretry(c) ==
  /\ kpc[c] = "kalloc_pop"
  /\ LET r == k_r[c]
     IN IF r = Junk
        THEN \* r->next dereferences a junk pointer: the kernel traps
             /\ kpc' = [kpc EXCEPT ![c] = "fault"]
             /\ UNCHANGED <<kmems_freelist, run_next, kmems_lock, k_r>>
        ELSE /\ k_r' = [k_r EXCEPT ![c] = r]
             /\ IF r # 0
                THEN /\ kmems_freelist' = [kmems_freelist EXCEPT ![c] = run_next[r]]
                     /\ run_next' = [run_next EXCEPT ![r] = Junk]
                ELSE UNCHANGED <<kmems_freelist, run_next>>
             /\ kmems_lock' = [kmems_lock EXCEPT ![c] = NoCpu]
             /\ kpc' = [kpc EXCEPT ![c] = "kalloc_return"]
  /\ UNCHANGED bvars
  /\ UNCHANGED <<k_k2, k_pa, refcount, call_free, call_alone>>

\* kalloc lines 121-131: r = k->freelist; pop it; memset(r, 5, PGSIZE)
\* overwrites r->next; release(&k->lock)
KallocPop(c) ==
  /\ kpc[c] = "kalloc_pop"
  /\ LET r == kmems_freelist[c]
     IN IF r = Junk
        THEN \* r->next dereferences a junk pointer: the kernel traps
             /\ kpc' = [kpc EXCEPT ![c] = "fault"]
             /\ UNCHANGED <<kmems_freelist, run_next, kmems_lock, k_r>>
        ELSE /\ k_r' = [k_r EXCEPT ![c] = r]
             /\ IF r # 0
                THEN /\ kmems_freelist' = [kmems_freelist EXCEPT ![c] = run_next[r]]
                     /\ run_next' = [run_next EXCEPT ![r] = Junk]
                ELSE UNCHANGED <<kmems_freelist, run_next>>
             /\ kmems_lock' = [kmems_lock EXCEPT ![c] = NoCpu]
             /\ kpc' = [kpc EXCEPT ![c] = "kalloc_return"]
  /\ UNCHANGED bvars
  /\ UNCHANGED <<k_k2, k_pa, refcount, call_free, call_alone>>

\* kalloc line 133: return r; the caller now holds a reference on frame r
KallocReturn(c) ==
  /\ kpc[c] = "kalloc_return"
  /\ IF k_r[c] # 0
     THEN refcount' = [refcount EXCEPT ![k_r[c]] =
              IF @ < MaxRef THEN @ + 1 ELSE @]
     ELSE UNCHANGED refcount
  /\ kpc' = [kpc EXCEPT ![c] = "idle"]
  /\ k_r' = [k_r EXCEPT ![c] = 0]
  /\ k_k2' = [k_k2 EXCEPT ![c] = 0]
  /\ call_free' = [call_free EXCEPT ![c] = {}]
  /\ call_alone' = [call_alone EXCEPT ![c] = FALSE]
  /\ UNCHANGED bvars
  /\ UNCHANGED <<kmems_freelist, kmems_lock, run_next, k_pa>>

\* ------------------------------------------------------------------- kfree
\* kfree lines 77-92: the caller gives up one reference on frame f, a page
\* of the pool, so the alignment and range checks of line 82 pass;
\* memset(pa, 1, PGSIZE) overwrites pa->next before the lock is taken
KfreeCall(c, f) ==
  /\ kpc[c] = "idle"
  /\ refcount[f] >= 1
  /\ refcount' = [refcount EXCEPT ![f] = @ - 1]
  /\ k_pa' = [k_pa EXCEPT ![c] = f]
  /\ run_next' = [run_next EXCEPT ![f] = Junk]
  /\ kpc' = [kpc EXCEPT ![c] = "kfree_acquire"]
  /\ call_alone' = Disturb(c)
  /\ UNCHANGED bvars
  /\ UNCHANGED <<kmems_freelist, kmems_lock, k_r, k_k2, call_free>>

\* kfree line 94: acquire(&k->lock)
KfreeAcquire(c) ==
  /\ kpc[c] = "kfree_acquire"
  /\ kmems_lock[c] = NoCpu
  /\ kmems_lock' = [kmems_lock EXCEPT ![c] = c]
  /\ kpc' = [kpc EXCEPT ![c] = "kfree_locked"]
  /\ UNCHANGED bvars
  /\ UNCHANGED <<kmems_freelist, run_next, k_r, k_k2, k_pa, refcount,
                 call_free, call_alone>>

\* kfree without line 95: pa->next keeps its old value
KfreePush_nolink(c) ==
  /\ kpc[c] = "kfree_locked"
  /\ kmems_freelist' = [kmems_freelist EXCEPT ![c] = k_pa[c]]
  /\ kmems_lock' = [kmems_lock EXCEPT ![c] = NoCpu]
  /\ k_pa' = [k_pa EXCEPT ![c] = 0]
  /\ kpc' = [kpc EXCEPT ![c] = "idle"]
  /\ UNCHANGED bvars
  /\ UNCHANGED <<run_next, k_r, k_k2, refcount, call_free, call_alone>>

\* kfree lines 95-99: push pa on the caller's list; release(&k->lock)
KfreePush(c) ==
  /\ kpc[c] = "kfree_locked"
  /\ run_next' = [run_next EXCEPT ![k_pa[c]] = kmems_freelist[c]]
  /\ kmems_freelist' = [kmems_freelist EXCEPT ![c] = k_pa[c]]
  /\ kmems_lock' = [kmems_lock EXCEPT ![c] = NoCpu]
  /\ k_pa' = [k_pa EXCEPT ![c] = 0]
  /\ kpc' = [kpc EXCEPT ![c] = "idle"]
  /\ UNCHANGED bvars
  /\ UNCHANGED <<k_r, k_k2, refcount, call_free, call_alone>>

\* incref(frame): one more mapping references an allocated frame
Incref(f) ==
  /\ refcount[f] >= 1
  /\ refcount[f] < MaxRef
  /\ refcount' = [refcount EXCEPT ![f] = @ + 1]
  /\ UNCHANGED bvars
  /\ UNCHANGED <<kmems_freelist, kmems_lock, run_next, kpc, k_r, k_k2, k_pa,
                 call_free, call_alone>>

\* ============================================================ buffer cache
RECURSIVE NextWalk(_, _, _)
\* the slots met from node n following ->next until head h (at most fuel)
NextWalk(n, h, fuel) ==
  IF n = h \/ n \notin Bufs \/ fuel = 0 THEN <<>>
  ELSE <<n>> \o NextWalk(b_next[n], h, fuel - 1)

RECURSIVE PrevWalk(_, _, _)
\* the slots met from node n following ->prev until head h (at most fuel)
PrevWalk(n, h, fuel) ==
  IF n = h \/ n \notin Bufs \/ fuel = 0 THEN <<>>
  ELSE <<n>> \o PrevWalk(b_prev[n], h, fuel - 1)

\* for(b = head.next; b != &head; b = b->next), bget lines 74 and 101
ListOf(k) == NextWalk(b_next[HeadOf(k)], HeadOf(k), NBUF)

\* for(b = bucket->head.next; b != &bucket->head; b = b->prev), bget line 85
HomeScan(k) == PrevWalk(b_next[HeadOf(k)], HeadOf(k), NBUF)

\* the first element of s that belongs to S, or 0
FirstIn(s, S) ==
  IF \E i \in 1 .. Len(s) : s[i] \in S
  THEN s[CHOOSE i \in 1 .. Len(s) :
           s[i] \in S /\ \A j \in 1 .. (i - 1) : s[j] \notin S]
  ELSE 0

\* a hit scan that only looks at the slot next to the head
HitSlot_first(k, dev, blockno) ==
  LET L == ListOf(k)
  IN FirstIn(IF L = <<>> THEN L ELSE <<L[1]>>,
             {b \in Bufs : b_dev[b] = dev /\ b_blockno[b] = blockno})

\* bget lines 74-75: the first slot of bucket k that holds (dev, blockno)
HitSlot(k, dev, blockno) ==
  FirstIn(ListOf(k), {b \in Bufs : b_dev[b] = dev /\ b_blockno[b] = blockno})

\* bget lines 85-86: the first slot with refcnt 0 the home scan meets
HomeVictim(k) ==
  FirstIn(HomeScan(k), {b \in Bufs : b_refcnt[b] = 0})

\* a steal scan that takes the first slot whatever its refcnt
EvictVictim_any(p) ==
  FirstIn(ListOf(p), Bufs)

\* bget lines 101-102: the first slot of bucket p with refcnt 0
EvictVictim(p) ==
  FirstIn(ListOf(p), {b \in Bufs : b_refcnt[b] = 0})

\* bget lines 97-99: the next bucket at or after `from` that is not the home
NextOther(home, from) ==
  IF \E k \in from .. (NBUCKET - 1) : k # home
  THEN CHOOSE k \in from .. (NBUCKET - 1) :
         k # home /\ \A j \in from .. (NBUCKET - 1) : j # home => k <= j
  ELSE NBUCKET

\* b->next->prev = b->prev; b->prev->next = b->next (lines 107-108, 165-166)
Unlinked(N, P, b) ==
  LET P1 == [P EXCEPT ![N[b]] = P[b]]
      N1 == [N EXCEPT ![P1[b]] = N[b]]
  IN <<N1, P1>>

\* b->next = head.next; b->prev = &head; head.next->prev = b; head.next = b
\* (lines 52-56, 110-113, 167-170)
LinkedAtHead(N, P, b, h) ==
  LET N1 == [N EXCEPT ![b] = N[h]]
      P1 == [P EXCEPT ![b] = h]
      P2 == [P1 EXCEPT ![N1[h]] = b]
      N2 == [N1 EXCEPT ![h] = b]
  IN <<N2, P2>>

RECURSIVE BinitLinks(_)
\* binit lines 43-57: every head points to itself, then slots 1 .. n are put
\* one after the other at the head of bucket 0 (bucket is never advanced)
BinitLinks(n) ==
  IF n = 0
  THEN <<[x \in Nodes |-> IF x \in Bufs THEN 0 ELSE x],
         [x \in Nodes |-> IF x \in Bufs THEN 0 ELSE x]>>
  ELSE LET L == BinitLinks(n - 1)
       IN LinkedAtHead(L[1], L[2], n, HeadOf(0))

\* binit; the slots are zero-initialised static storage
BInit ==
  /\ b_next = BinitLinks(NBUF)[1]
  /\ b_prev = BinitLinks(NBUF)[2]
  /\ b_dev = [b \in Bufs |-> 0]
  /\ b_blockno = [b \in Bufs |-> 0]
  /\ b_valid = [b \in Bufs |-> 0]
  /\ b_refcnt = [b \in Bufs |-> 0]
  /\ b_lock = [b \in Bufs |-> NoThread]
  /\ bucket_lock = [k \in Buckets |-> NoThread]
  /\ tpc = [t \in Threads |-> "idle"]
  /\ t_dev = [t \in Threads |-> 0]
  /\ t_blockno = [t \in Threads |-> 0]
  /\ t_b = [t \in Threads |-> 0]
  /\ t_bucket = [t \in Threads |-> 0]
  /\ t_p = [t \in Threads |-> 0]
  /\ pins = [b \in Bufs |-> 0]
  /\ returned = {}
  /\ disk_reads = 0
  /\ disk = [x \in Devs \X Blocks |-> 0]
  /\ b_data = [b \in Bufs |-> 0]
  /\ t_dirty = [t \in Threads |-> FALSE]

\* panic() stops the whole kernel
Running == \A t \in Threads : tpc[t] # "panic"

BQuiescent == \A t \in Threads : tpc[t] = "idle"

\* a bget that takes bucket 0 as the home bucket of every block
BgetCall_bucket0(t, dev, blockno) ==
  /\ Running
  /\ tpc[t] = "idle"
  /\ tpc' = [tpc EXCEPT ![t] = "bget"]
  /\ t_dev' = [t_dev EXCEPT ![t] = dev]
  /\ t_blockno' = [t_blockno EXCEPT ![t] = blockno]
  /\ t_bucket' = [t_bucket EXCEPT ![t] = 0]
  /\ UNCHANGED <<b_next, b_prev, b_dev, b_blockno, b_valid, b_refcnt, b_lock,
                 bucket_lock, t_b, t_p, pins, returned, disk_reads>>
  /\ UNCHANGED dvars
  /\ UNCHANGED kvars

\* bread line 132, bget line 69: bucket = &bcache.bucket[blockno % NBUCKET]
BgetCall(t, dev, blockno) ==
  /\ Running
  /\ tpc[t] = "idle"
  /\ tpc' = [tpc EXCEPT ![t] = "bget"]
  /\ t_dev' = [t_dev EXCEPT ![t] = dev]
  /\ t_blockno' = [t_blockno EXCEPT ![t] = blockno]
  /\ t_bucket' = [t_bucket EXCEPT ![t] = blockno % NBUCKET]
  /\ UNCHANGED <<b_next, b_prev, b_dev, b_blockno, b_valid, b_refcnt, b_lock,
                 bucket_lock, t_b, t_p, pins, returned, disk_reads>>
  /\ UNCHANGED dvars
  /\ UNCHANGED kvars

\* bget lines 71-99: acquire(&bucket->lock); hit scan; home recycle scan;
\* otherwise keep the home lock and go on to the other buckets, or panic
\* (lines 121-123) when there is no other bucket
BgetScan(t) ==
  /\ Running
  /\ tpc[t] = "bget"
  /\ bucket_lock[t_bucket[t]] = NoThread
  /\ LET home == t_bucket[t]
         hit == HitSlot(home, t_dev[t], t_blockno[t])
         vic == HomeVictim(home)
         p == NextOther(home, 0)
     IN IF hit # 0
        THEN /\ b_refcnt' = [b_refcnt EXCEPT ![hit] = @ + 1]
             /\ t_b' = [t_b EXCEPT ![t] = hit]
             /\ tpc' = [tpc EXCEPT ![t] = "sleep"]
             /\ UNCHANGED <<b_dev, b_blockno, b_valid, bucket_lock, t_p>>
        ELSE IF vic # 0
        THEN /\ b_dev' = [b_dev EXCEPT ![vic] = t_dev[t]]
             /\ b_blockno' = [b_blockno EXCEPT ![vic] = t_blockno[t]]
             /\ b_valid' = [b_valid EXCEPT ![vic] = 0]
             /\ b_refcnt' = [b_refcnt EXCEPT ![vic] = 1]
             /\ t_b' = [t_b EXCEPT ![t] = vic]
             /\ tpc' = [tpc EXCEPT ![t] = "sleep"]
             /\ UNCHANGED <<bucket_lock, t_p>>
        ELSE IF p = NBUCKET
        THEN /\ tpc' = [tpc EXCEPT ![t] = "panic"]
             /\ UNCHANGED <<b_dev, b_blockno, b_valid, b_refcnt, bucket_lock,
                            t_b, t_p>>
        ELSE /\ bucket_lock' = [bucket_lock EXCEPT ![home] = t]
             /\ t_p' = [t_p EXCEPT ![t] = p]
             /\ tpc' = [tpc EXCEPT ![t] = "evict"]
             /\ UNCHANGED <<b_dev, b_blockno, b_valid, b_refcnt, t_b>>
  /\ UNCHANGED <<b_next, b_prev, b_lock, t_dev, t_blockno, t_bucket, pins,
                 returned, disk_reads>>
  /\ UNCHANGED dvars
  /\ UNCHANGED kvars

\* a steal path that goes to acquiresleep with the home lock still held
BgetEvict_norelease(t) ==
  /\ Running
  /\ tpc[t] = "evict"
  /\ bucket_lock[t_p[t]] = NoThread
  /\ LET home == t_bucket[t]
         p == t_p[t]
         vic == EvictVictim(p)
         np == NextOther(home, p + 1)
     IN IF vic # 0
        THEN LET U == Unlinked(b_next, b_prev, vic)
                 L == LinkedAtHead(U[1], U[2], vic, HeadOf(home))
             IN /\ b_dev' = [b_dev EXCEPT ![vic] = t_dev[t]]
                /\ b_blockno' = [b_blockno EXCEPT ![vic] = t_blockno[t]]
                /\ b_valid' = [b_valid EXCEPT ![vic] = 0]
                /\ b_refcnt' = [b_refcnt EXCEPT ![vic] = 1]
                /\ b_next' = L[1]
                /\ b_prev' = L[2]
                /\ UNCHANGED bucket_lock
                /\ t_b' = [t_b EXCEPT ![t] = vic]
                /\ tpc' = [tpc EXCEPT ![t] = "sleep"]
                /\ UNCHANGED t_p
        ELSE IF np = NBUCKET
        THEN /\ bucket_lock' = [bucket_lock EXCEPT ![home] = NoThread]
             /\ tpc' = [tpc EXCEPT ![t] = "panic"]
             /\ UNCHANGED <<b_next, b_prev, b_dev, b_blockno, b_valid,
                            b_refcnt, t_b, t_p>>
        ELSE /\ t_p' = [t_p EXCEPT ![t] = np]
             /\ UNCHANGED <<b_next, b_prev, b_dev, b_blockno, b_valid,
                            b_refcnt, bucket_lock, t_b, tpc>>
  /\ UNCHANGED <<b_lock, t_dev, t_blockno, t_bucket, pins, returned,
                 disk_reads>>
  /\ UNCHANGED dvars
  /\ UNCHANGED kvars

\* bget lines 100-123: acquire(&p->lock) with the home lock held; take the
\* first idle slot of p and move it to the head of the home bucket, or
\* release p and go to the next bucket; panic after the last one
BgetEvict(t) ==
  /\ Running
  /\ tpc[t] = "evict"
  /\ bucket_lock[t_p[t]] = NoThread
  /\ LET home == t_bucket[t]
         p == t_p[t]
         vic == EvictVictim(p)
         np == NextOther(home, p + 1)
     IN IF vic # 0
        THEN LET U == Unlinked(b_next, b_prev, vic)
                 L == LinkedAtHead(U[1], U[2], vic, HeadOf(home))
             IN /\ b_dev' = [b_dev EXCEPT ![vic] = t_dev[t]]
                /\ b_blockno' = [b_blockno EXCEPT ![vic] = t_blockno[t]]
                /\ b_valid' = [b_valid EXCEPT ![vic] = 0]
                /\ b_refcnt' = [b_refcnt EXCEPT ![vic] = 1]
                /\ b_next' = L[1]
                /\ b_prev' = L[2]
                /\ bucket_lock' = [bucket_lock EXCEPT ![home] = NoThread]
                /\ t_b' = [t_b EXCEPT ![t] = vic]
                /\ tpc' = [tpc EXCEPT ![t] = "sleep"]
                /\ UNCHANGED t_p
        ELSE IF np = NBUCKET
        THEN /\ bucket_lock' = [bucket_lock EXCEPT ![home] = NoThread]
             /\ tpc' = [tpc EXCEPT ![t] = "panic"]
             /\ UNCHANGED <<b_next, b_prev, b_dev, b_blockno, b_valid,
                            b_refcnt, t_b, t_p>>
        ELSE /\ t_p' = [t_p EXCEPT ![t] = np]
             /\ UNCHANGED <<b_next, b_prev, b_dev, b_blockno, b_valid,
                            b_refcnt, bucket_lock, t_b, tpc>>
  /\ UNCHANGED <<b_lock, t_dev, t_blockno, t_bucket, pins, returned,
                 disk_reads>>
  /\ UNCHANGED dvars
  /\ UNCHANGED kvars

\* an acquiresleep that does not wait for the holder of the lock
BgetSleep_nowait(t) ==
  /\ Running
  /\ tpc[t] = "sleep"
  /\ b_lock' = [b_lock EXCEPT ![t_b[t]] = t]
  /\ returned' = returned \cup {t_b[t]}
  /\ tpc' = [tpc EXCEPT ![t] = "bread"]
  /\ UNCHANGED <<b_next, b_prev, b_dev, b_blockno, b_valid, b_refcnt,
                 bucket_lock, t_dev, t_blockno, t_b, t_bucket, t_p, pins,
                 disk_reads>>
  /\ UNCHANGED dvars
  /\ UNCHANGED kvars

\* bget lines 78-79, 92-93, 115-116: acquiresleep(&b->lock); return b
BgetSleep(t) ==
  /\ Running
  /\ tpc[t] = "sleep"
  /\ b_lock[t_b[t]] = NoThread
  /\ b_lock' = [b_lock EXCEPT ![t_b[t]] = t]
  /\ returned' = returned \cup {t_b[t]}
  /\ tpc' = [tpc EXCEPT ![t] = "bread"]
  /\ UNCHANGED <<b_next, b_prev, b_dev, b_blockno, b_valid, b_refcnt,
                 bucket_lock, t_dev, t_blockno, t_b, t_bucket, t_p, pins,
                 disk_reads>>
  /\ UNCHANGED dvars
  /\ UNCHANGED kvars

\* a bread that reads the disk but forgets b->valid = 1
BreadCheck_novalid(t) ==
  /\ Running
  /\ tpc[t] = "bread"
  /\ IF b_valid[t_b[t]] = 0
     THEN /\ b_data' = [b_data EXCEPT ![t_b[t]] =
                disk[<<b_dev[t_b[t]], b_blockno[t_b[t]]>>]]
          /\ disk_reads' = IF disk_reads < MaxReads THEN disk_reads + 1
                           ELSE disk_reads
     ELSE UNCHANGED <<b_data, disk_reads>>
  /\ tpc' = [tpc EXCEPT ![t] = "holding"]
  /\ UNCHANGED <<b_next, b_prev, b_dev, b_blockno, b_valid, b_refcnt, b_lock,
                 bucket_lock, t_dev, t_blockno, t_b, t_bucket, t_p, pins,
                 returned>>
  /\ UNCHANGED <<disk, t_dirty>>
  /\ UNCHANGED kvars

\* a bread that sets b->valid without reading the block from the disk
BreadCheck_noread(t) ==
  /\ Running
  /\ tpc[t] = "bread"
  /\ IF b_valid[t_b[t]] = 0
     THEN /\ b_valid' = [b_valid EXCEPT ![t_b[t]] = 1]
          /\ disk_reads' = IF disk_reads < MaxReads THEN disk_reads + 1
                           ELSE disk_reads
     ELSE UNCHANGED <<b_valid, disk_reads>>
  /\ tpc' = [tpc EXCEPT ![t] = "holding"]
  /\ UNCHANGED <<b_next, b_prev, b_dev, b_blockno, b_refcnt, b_lock,
                 bucket_lock, t_dev, t_blockno, t_b, t_bucket, t_p, pins,
                 returned>>
  /\ UNCHANGED dvars
  /\ UNCHANGED kvars

\* a bread that reads the disk whether or not the slot is valid
BreadCheck_always(t) ==
  /\ Running
  /\ tpc[t] = "bread"
  /\ b_data' = [b_data EXCEPT ![t_b[t]] =
                   disk[<<b_dev[t_b[t]], b_blockno[t_b[t]]>>]]
  /\ b_valid' = [b_valid EXCEPT ![t_b[t]] = 1]
  /\ disk_reads' = IF disk_reads < MaxReads THEN disk_reads + 1
                   ELSE disk_reads
  /\ tpc' = [tpc EXCEPT ![t] = "holding"]
  /\ UNCHANGED <<b_next, b_prev, b_dev, b_blockno, b_refcnt, b_lock,
                 bucket_lock, t_dev, t_blockno, t_b, t_bucket, t_p, pins,
                 returned>>
  /\ UNCHANGED <<disk, t_dirty>>
  /\ UNCHANGED kvars

\* bread lines 133-137: if(!b->valid){ virtio_disk_rw(b, 0); b->valid = 1; }
BreadCheck(t) ==
  /\ Running
  /\ tpc[t] = "bread"
  /\ IF b_valid[t_b[t]] = 0
     THEN /\ b_data' = [b_data EXCEPT ![t_b[t]] =
                disk[<<b_dev[t_b[t]], b_blockno[t_b[t]]>>]]
          /\ b_valid' = [b_valid EXCEPT ![t_b[t]] = 1]
          /\ disk_reads' = IF disk_reads < MaxReads THEN disk_reads + 1
                           ELSE disk_reads
     ELSE UNCHANGED <<b_data, b_valid, disk_reads>>
  /\ tpc' = [tpc EXCEPT ![t] = "holding"]
  /\ UNCHANGED <<b_next, b_prev, b_dev, b_blockno, b_refcnt, b_lock,
                 bucket_lock, t_dev, t_blockno, t_b, t_bucket, t_p, pins,
                 returned>>
  /\ UNCHANGED <<disk, t_dirty>>
  /\ UNCHANGED kvars

\* brelse lines 154-159: bucket from b->blockno; holdingsleep check;
\* releasesleep(&b->lock)
BrelseCall(t) ==
  /\ Running
  /\ tpc[t] = "holding"
  /\ IF b_lock[t_b[t]] # t
     THEN /\ tpc' = [tpc EXCEPT ![t] = "panic"]
          /\ UNCHANGED <<b_lock, t_bucket>>
     ELSE /\ t_bucket' = [t_bucket EXCEPT ![t] = b_blockno[t_b[t]] % NBUCKET]
          /\ b_lock' = [b_lock EXCEPT ![t_b[t]] = NoThread]
          /\ tpc' = [tpc EXCEPT ![t] = "brelse"]
  /\ UNCHANGED <<b_next, b_prev, b_dev, b_blockno, b_valid, b_refcnt,
                 bucket_lock, t_dev, t_blockno, t_b, t_p, pins, returned,
                 disk_reads>>
  /\ UNCHANGED dvars
  /\ UNCHANGED kvars

\* a brelse that moves the slot to the head whatever refcnt becomes
BrelseLocked_always(t) ==
  /\ Running
  /\ tpc[t] = "brelse"
  /\ bucket_lock[t_bucket[t]] = NoThread
  /\ LET b == t_b[t]
         U == Unlinked(b_next, b_prev, b)
         L == LinkedAtHead(U[1], U[2], b, HeadOf(t_bucket[t]))
     IN /\ b_refcnt' = [b_refcnt EXCEPT ![b] = @ - 1]
        /\ b_next' = L[1]
        /\ b_prev' = L[2]
  /\ tpc' = [tpc EXCEPT ![t] = "idle"]
  /\ t_b' = [t_b EXCEPT ![t] = 0]
  /\ t_dev' = [t_dev EXCEPT ![t] = 0]
  /\ t_blockno' = [t_blockno EXCEPT ![t] = 0]
  /\ t_bucket' = [t_bucket EXCEPT ![t] = 0]
  /\ t_p' = [t_p EXCEPT ![t] = 0]
  /\ UNCHANGED <<b_dev, b_blockno, b_valid, b_lock, bucket_lock, pins,
                 returned, disk_reads>>
  /\ t_dirty' = [t_dirty EXCEPT ![t] = FALSE]
  /\ UNCHANGED <<disk, b_data>>
  /\ UNCHANGED kvars

\* brelse lines 161-173: under the bucket lock, b->refcnt--; at 0 the slot
\* is moved to the head of the bucket's list
BrelseLocked(t) ==
  /\ Running
  /\ tpc[t] = "brelse"
  /\ bucket_lock[t_bucket[t]] = NoThread
  /\ LET b == t_b[t]
         U == Unlinked(b_next, b_prev, b)
         L == LinkedAtHead(U[1], U[2], b, HeadOf(t_bucket[t]))
     IN /\ b_refcnt' = [b_refcnt EXCEPT ![b] = @ - 1]
        /\ IF b_refcnt[b] - 1 = 0
           THEN b_next' = L[1] /\ b_prev' = L[2]
           ELSE UNCHANGED <<b_next, b_prev>>
  /\ tpc' = [tpc EXCEPT ![t] = "idle"]
  /\ t_b' = [t_b EXCEPT ![t] = 0]
  /\ t_dev' = [t_dev EXCEPT ![t] = 0]
  /\ t_blockno' = [t_blockno EXCEPT ![t] = 0]
  /\ t_bucket' = [t_bucket EXCEPT ![t] = 0]
  /\ t_p' = [t_p EXCEPT ![t] = 0]
  /\ UNCHANGED <<b_dev, b_blockno, b_valid, b_lock, bucket_lock, pins,
                 returned, disk_reads>>
  /\ t_dirty' = [t_dirty EXCEPT ![t] = FALSE]
  /\ UNCHANGED <<disk, b_data>>
  /\ UNCHANGED kvars

\* bpin line 178, called by the thread that holds b
BpinCall(t) ==
  /\ Running
  /\ tpc[t] = "holding"
  /\ pins[t_b[t]] < MaxPins
  /\ t_bucket' = [t_bucket EXCEPT ![t] = b_blockno[t_b[t]] % NBUCKET]
  /\ tpc' = [tpc EXCEPT ![t] = "bpin"]
  /\ UNCHANGED <<b_next, b_prev, b_dev, b_blockno, b_valid, b_refcnt, b_lock,
                 bucket_lock, t_dev, t_blockno, t_b, t_p, pins, returned,
                 disk_reads>>
  /\ UNCHANGED dvars
  /\ UNCHANGED kvars

\* a bpin that counts the pin twice
BpinLocked_twice(t) ==
  /\ Running
  /\ tpc[t] = "bpin"
  /\ bucket_lock[t_bucket[t]] = NoThread
  /\ b_refcnt' = [b_refcnt EXCEPT ![t_b[t]] = @ + 2]
  /\ pins' = [pins EXCEPT ![t_b[t]] = @ + 1]
  /\ tpc' = [tpc EXCEPT ![t] = "holding"]
  /\ UNCHANGED <<b_next, b_prev, b_dev, b_blockno, b_valid, b_lock,
                 bucket_lock, t_dev, t_blockno, t_b, t_bucket, t_p, returned,
                 disk_reads>>
  /\ UNCHANGED dvars
  /\ UNCHANGED kvars

\* bpin lines 179-181: under the bucket lock, b->refcnt++
BpinLocked(t) ==
  /\ Running
  /\ tpc[t] = "bpin"
  /\ bucket_lock[t_bucket[t]] = NoThread
  /\ b_refcnt' = [b_refcnt EXCEPT ![t_b[t]] = @ + 1]
  /\ pins' = [pins EXCEPT ![t_b[t]] = @ + 1]
  /\ tpc' = [tpc EXCEPT ![t] = "holding"]
  /\ UNCHANGED <<b_next, b_prev, b_dev, b_blockno, b_valid, b_lock,
                 bucket_lock, t_dev, t_blockno, t_b, t_bucket, t_p, returned,
                 disk_reads>>
  /\ UNCHANGED dvars
  /\ UNCHANGED kvars

\* bunpin line 186, called for a pinned slot by a thread that holds no slot
BunpinCall(t, b) ==
  /\ Running
  /\ tpc[t] = "idle"
  /\ pins[b] > 0
  /\ pins' = [pins EXCEPT ![b] = @ - 1]
  /\ t_b' = [t_b EXCEPT ![t] = b]
  /\ t_bucket' = [t_bucket EXCEPT ![t] = b_blockno[b] % NBUCKET]
  /\ tpc' = [tpc EXCEPT ![t] = "bunpin"]
  /\ UNCHANGED <<b_next, b_prev, b_dev, b_blockno, b_valid, b_refcnt, b_lock,
                 bucket_lock, t_dev, t_blockno, t_p, returned, disk_reads>>
  /\ UNCHANGED dvars
  /\ UNCHANGED kvars

\* bunpin lines 187-189: under the bucket lock, b->refcnt--
BunpinLocked(t) ==
  /\ Running
  /\ tpc[t] = "bunpin"
  /\ bucket_lock[t_bucket[t]] = NoThread
  /\ b_refcnt' = [b_refcnt EXCEPT ![t_b[t]] = @ - 1]
  /\ tpc' = [tpc EXCEPT ![t] = "idle"]
  /\ t_b' = [t_b EXCEPT ![t] = 0]
  /\ t_bucket' = [t_bucket EXCEPT ![t] = 0]
  /\ UNCHANGED <<b_next, b_prev, b_dev, b_blockno, b_valid, b_lock,
                 bucket_lock, t_dev, t_blockno, t_p, pins, returned,
                 disk_reads>>
  /\ UNCHANGED dvars
  /\ UNCHANGED kvars

\* the holder changes the contents of the buffer it has locked
\* ("After changing buffer data, call bwrite", header lines 9-10)
Modify(t, v) ==
  /\ Running
  /\ tpc[t] = "holding"
  /\ b_data[t_b[t]] # v
  /\ b_data' = [b_data EXCEPT ![t_b[t]] = v]
  /\ t_dirty' = [t_dirty EXCEPT ![t] = TRUE]
  /\ UNCHANGED <<b_next, b_prev, b_dev, b_blockno, b_valid, b_refcnt, b_lock,
                 bucket_lock, tpc, t_dev, t_blockno, t_b, t_bucket, t_p, pins,
                 returned, disk_reads, disk>>
  /\ UNCHANGED kvars

\* bwrite lines 144-145, called by the thread that holds b:
\* if(!holdingsleep(&b->lock)) panic("bwrite")
BwriteCall(t) ==
  /\ Running
  /\ tpc[t] = "holding"
  /\ tpc' = [tpc EXCEPT ![t] =
        IF b_lock[t_b[t]] # t THEN "panic" ELSE "bwrite"]
  /\ UNCHANGED <<b_next, b_prev, b_dev, b_blockno, b_valid, b_refcnt, b_lock,
                 bucket_lock, t_dev, t_blockno, t_b, t_bucket, t_p, pins,
                 returned, disk_reads>>
  /\ UNCHANGED dvars
  /\ UNCHANGED kvars

\* bwrite line 146: virtio_disk_rw(b, 1) stores b->data as block
\* (b->dev, b->blockno)
BwriteDone(t) ==
  /\ Running
  /\ tpc[t] = "bwrite"
  /\ disk' = [disk EXCEPT ![<<b_dev[t_b[t]], b_blockno[t_b[t]]>>] =
                 b_data[t_b[t]]]
  /\ t_dirty' = [t_dirty EXCEPT ![t] = FALSE]
  /\ tpc' = [tpc EXCEPT ![t] = "holding"]
  /\ UNCHANGED <<b_next, b_prev, b_dev, b_blockno, b_valid, b_refcnt, b_lock,
                 bucket_lock, t_dev, t_blockno, t_b, t_bucket, t_p, pins,
                 returned, disk_reads, b_data>>
  /\ UNCHANGED kvars

\* bwrite lines 144-145 for a slot whose sleeplock the caller does not hold
BwriteUnheld(t, b) ==
  /\ Running
  /\ tpc[t] = "idle"
  /\ b_lock[b] # t
  /\ t_b' = [t_b EXCEPT ![t] = b]
  /\ tpc' = [tpc EXCEPT ![t] = "panic"]
  /\ UNCHANGED <<b_next, b_prev, b_dev, b_blockno, b_valid, b_refcnt, b_lock,
                 bucket_lock, t_dev, t_blockno, t_bucket, t_p, pins,
                 returned, disk_reads>>
  /\ UNCHANGED dvars
  /\ UNCHANGED kvars

\* a brelse that releases the sleeplock before it checks who holds it
BrelseUnheld_late(t, b) ==
  /\ Running
  /\ tpc[t] = "idle"
  /\ b_lock[b] # t
  /\ b_lock' = [b_lock EXCEPT ![b] = NoThread]
  /\ t_b' = [t_b EXCEPT ![t] = b]
  /\ t_bucket' = [t_bucket EXCEPT ![t] = b_blockno[b] % NBUCKET]
  /\ tpc' = [tpc EXCEPT ![t] = "panic"]
  /\ UNCHANGED <<b_next, b_prev, b_dev, b_blockno, b_valid, b_refcnt,
                 bucket_lock, t_dev, t_blockno, t_p, pins,
                 returned, disk_reads>>
  /\ UNCHANGED dvars
  /\ UNCHANGED kvars

\* brelse lines 154-157 for a slot whose sleeplock the caller does not hold:
\* bucket from b->blockno; if(!holdingsleep(&b->lock)) panic("brelse")
BrelseUnheld(t, b) ==
  /\ Running
  /\ tpc[t] = "idle"
  /\ b_lock[b] # t
  /\ t_b' = [t_b EXCEPT ![t] = b]
  /\ t_bucket' = [t_bucket EXCEPT ![t] = b_blockno[b] % NBUCKET]
  /\ tpc' = [tpc EXCEPT ![t] = "panic"]
  /\ UNCHANGED <<b_next, b_prev, b_dev, b_blockno, b_valid, b_refcnt, b_lock,
                 bucket_lock, t_dev, t_blockno, t_p, pins,
                 returned, disk_reads>>
  /\ UNCHANGED dvars
  /\ UNCHANGED kvars

\* brelse by a holder that has written back what it changed
BrelseWritten(t) ==
  /\ ~t_dirty[t]
  /\ BrelseCall(t)

\* every thread in flight asks for (dev, blockno) and nothing else was loaded
OnlyBlock(dev, blockno) ==
  /\ \A u \in Threads :
       tpc[u] # "idle" => t_dev[u] = dev /\ t_blockno[u] = blockno
  /\ \A b \in Bufs :
       b_valid[b] = 1 => b_dev[b] = dev /\ b_blockno[b] = blockno

\* bread by threads that all load the same block
BreadSame(t, dev, blockno) ==
  /\ OnlyBlock(dev, blockno)
  /\ BgetCall(t, dev, blockno)

Init == KInit /\ BInit

KNext ==
  \/ \E c \in CPUs : KallocCall(c)
  \/ \E c \in CPUs : KallocAcquire(c)
  \/ \E c \in CPUs : StealAcquire(c)
  \/ \E c \in CPUs : StealMove(c)
  \/ \E c \in CPUs : KallocPop(c)
  \/ \E c \in CPUs : KallocReturn(c)
  \/ \E c \in CPUs : \E f \in Frames : KfreeCall(c, f)
  \/ \E c \in CPUs : KfreeAcquire(c)
  \/ \E c \in CPUs : KfreePush(c)

Next == KNext

\* the allocator used by single-owner callers: kalloc and kfree only
Spec == Init /\ [][Next]_vars

\* the allocator with frames shared through incref, driven from one cpu:
\* reference counting does not depend on which unit calls
SharedNext ==
  \/ KallocCall(0)
  \/ KallocAcquire(0)
  \/ StealAcquire(0)
  \/ StealMove(0)
  \/ KallocPop(0)
  \/ KallocReturn(0)
  \/ \E f \in Frames : KfreeCall(0, f)
  \/ KfreeAcquire(0)
  \/ KfreePush(0)
  \/ \E f \in Frames : Incref(f)

SpecShared == Init /\ [][SharedNext]_vars

\* the buffer cache under any interleaving of bread, brelse, bpin, bunpin
BNext ==
  \/ \E t \in Threads : \E d \in Devs : \E n \in Blocks : BgetCall(t, d, n)
  \/ \E t \in Threads : BgetScan(t)
  \/ \E t \in Threads : BgetEvict(t)
  \/ \E t \in Threads : BgetSleep(t)
  \/ \E t \in Threads : BreadCheck(t)
  \/ \E t \in Threads : BrelseCall(t)
  \/ \E t \in Threads : BrelseLocked(t)
  \/ \E t \in Threads : BpinCall(t)
  \/ \E t \in Threads : BpinLocked(t)
  \/ \E t \in Threads : \E b \in Bufs : BunpinCall(t, b)
  \/ \E t \in Threads : BunpinLocked(t)

SpecBcache == Init /\ [][BNext]_vars

\* write-through use: holders change a buffer, bwrite it, then release it
DiskNext ==
  \/ \E t \in Threads : \E d \in Devs : \E n \in Blocks : BgetCall(t, d, n)
  \/ \E t \in Threads : BgetScan(t)
  \/ \E t \in Threads : BgetEvict(t)
  \/ \E t \in Threads : BgetSleep(t)
  \/ \E t \in Threads : BreadCheck(t)
  \/ \E t \in Threads : \E v \in Vals : Modify(t, v)
  \/ \E t \in Threads : BwriteCall(t)
  \/ \E t \in Threads : BwriteDone(t)
  \/ \E t \in Threads : BrelseWritten(t)
  \/ \E t \in Threads : BrelseLocked(t)

SpecDisk == Init /\ [][DiskNext]_vars

\* the buffer cache with bwrite, and with bwrite and brelse also called by
\* threads that do not hold the slot
MisuseNext ==
  \/ \E t \in Threads : \E d \in Devs : \E n \in Blocks : BgetCall(t, d, n)
  \/ \E t \in Threads : BgetScan(t)
  \/ \E t \in Threads : BgetEvict(t)
  \/ \E t \in Threads : BgetSleep(t)
  \/ \E t \in Threads : BreadCheck(t)
  \/ \E t \in Threads : BwriteCall(t)
  \/ \E t \in Threads : BwriteDone(t)
  \/ \E t \in Threads : BrelseCall(t)
  \/ \E t \in Threads : BrelseLocked(t)
  \/ \E t \in Threads : BpinCall(t)
  \/ \E t \in Threads : BpinLocked(t)
  \/ \E t \in Threads : \E b \in Bufs : BunpinCall(t, b)
  \/ \E t \in Threads : BunpinLocked(t)
  \/ \E t \in Threads : \E b \in Bufs : BwriteUnheld(t, b)
  \/ \E t \in Threads : \E b \in Bufs : BrelseUnheld(t, b)

SpecMisuse == Init /\ [][MisuseNext]_vars

\* scenario B: the threads load one and the same block and release it
ScenarioBNext ==
  \/ \E t \in Threads : \E d \in Devs : \E n \in Blocks : BreadSame(t, d, n)
  \/ \E t \in Threads : BgetScan(t)
  \/ \E t \in Threads : BgetEvict(t)
  \/ \E t \in Threads : BgetSleep(t)
  \/ \E t \in Threads : BreadCheck(t)
  \/ \E t \in Threads : BrelseCall(t)
  \/ \E t \in Threads : BrelseLocked(t)

SpecScenarioB == Init /\ [][ScenarioBNext]_vars

\* ================================================================== claims
SumLen(S) ==
  LET RECURSIVE Sum(_)
      Sum(T) == IF T = {} THEN 0
                ELSE LET c == CHOOSE x \in T : TRUE
                     IN Len(FreeSeq(c)) + Sum(T \ {c})
  IN Sum(S)

NoDup(s) == \A i, j \in 1 .. Len(s) : i # j => s[i] # s[j]

\* C1: no frame is held as allocated by two callers at once; a frame that
\* kalloc is about to return is not outstanding and is not being returned
\* by another cpu's kalloc at the same time.
C1_NoDoubleAllocation ==
  /\ \A f \in Frames : refcount[f] <= 1
  /\ \A c \in CPUs :
       (kpc[c] = "kalloc_return" /\ k_r[c] # 0) =>
         /\ refcount[k_r[c]] = 0
         /\ \A d \in CPUs \ {c} :
              kpc[d] = "kalloc_return" => k_r[d] # k_r[c]

\* a kalloc that went through steal returns a frame while another frame is out
C1_Witness ==
  \E c \in CPUs :
    /\ kpc[c] = "kalloc_return"
    /\ k_k2[c] = NCPU
    /\ k_r[c] # 0
    /\ Outstanding # {}

\* C2: when no operation is in progress, outstanding frames plus the frames
\* on all free lists are the whole pool; no frame is on two lists or twice
\* on one list.
C2_FrameConservation ==
  KQuiescent =>
    /\ Cardinality(Outstanding) + SumLen(CPUs) = NFRAMES
    /\ \A c \in CPUs : NoDup(FreeSeq(c))
    /\ \A c, d \in CPUs : c # d => Range(FreeSeq(c)) \cap Range(FreeSeq(d)) = {}
    /\ Outstanding \cap FreeFrames = {}

\* quiescent, a frame out, and frames on the lists of two different cpus
C2_Witness ==
  /\ KQuiescent
  /\ Outstanding # {}
  /\ \E c, d \in CPUs : c # d /\ kmems_freelist[c] # 0 /\ kmems_freelist[d] # 0

\* C3: scavenging never reaches a state in which a set of cpus each hold
\* their own free-list lock and each wait in steal for a lock held by a
\* cpu of the set.
C3_ScavengeDeadlockFree ==
  ~ \E S \in (SUBSET CPUs) \ {{}} :
      \A a \in S :
        /\ kpc[a] = "steal_acquire"
        /\ kmems_lock[a] = a
        /\ kmems_lock[k_k2[a]] \in S

\* C9: a frame is on a free list, or on its way to one inside kfree, only
\* when no reference to it remains.
C9_FreeOnlyAtZero ==
  /\ \A f \in FreeFrames : refcount[f] = 0
  /\ \A c \in CPUs : k_pa[c] # 0 => refcount[k_pa[c]] = 0

\* C10: a kalloc that runs alone returns 0 when no frame was free at the
\* call, and returns frame f when f was the only free frame (on whatever
\* cpu's list); it never has to wait for a lock.
C10_ScenarioA ==
  \A c \in CPUs :
    call_alone[c] =>
      /\ kpc[c] = "kalloc_acquire" => kmems_lock[c] = NoCpu
      /\ kpc[c] = "steal_acquire" => kmems_lock[k_k2[c]] = NoCpu
      /\ kpc[c] = "kalloc_return" =>
           /\ call_free[c] = {} => k_r[c] = 0
           /\ \A f \in Frames : call_free[c] = {f} => k_r[c] = f

\* the only free frame sat on another cpu's list and came back through steal
C10_Witness ==
  \E c \in CPUs : \E f \in Frames :
    /\ kpc[c] = "kalloc_return"
    /\ call_alone[c]
    /\ call_free[c] = {f}
    /\ k_k2[c] = NCPU
    /\ k_r[c] = f

\* C4: cross-bucket eviction never reaches a state in which a set of threads
\* each hold their home bucket lock and each wait in bget for a bucket lock
\* held by a thread of the set.
C4_EvictionDeadlockFree ==
  ~ \E S \in (SUBSET Threads) \ {{}} :
      \A t \in S :
        /\ tpc[t] = "evict"
        /\ bucket_lock[t_bucket[t]] = t
        /\ bucket_lock[t_p[t]] \in S

\* C5: a step changes the (dev, blockno) of a slot only if the slot's refcnt
\* is 0 before the step.
C5_EvictOnlyIdle ==
  [][\A b \in Bufs :
       (b_dev'[b] # b_dev[b] \/ b_blockno'[b] # b_blockno[b])
         => b_refcnt[b] = 0]_vars

\* the steal scan passed over a pinned slot and repurposed an idle one
C5_Witness ==
  \E t \in Threads : \E b \in Bufs :
    /\ tpc[t] = "sleep"
    /\ t_b[t] # b
    /\ b_valid[t_b[t]] = 0
    /\ b_refcnt[t_b[t]] = 1
    /\ b_blockno[t_b[t]] % NBUCKET # 0
    /\ pins[b] = 1
    /\ b_refcnt[b] >= 1

\* C6: when no operation is in progress, no two slots with valid = 1 have
\* the same (dev, blockno).
C6_IdentityUnique ==
  BQuiescent =>
    \A a, b \in Bufs :
      (a # b /\ b_valid[a] = 1 /\ b_valid[b] = 1)
        => (b_dev[a] # b_dev[b] \/ b_blockno[a] # b_blockno[b])

\* quiescent with two valid slots, one of them loaded again after a reuse
C6_Witness ==
  /\ BQuiescent
  /\ \E a, b \in Bufs : a # b /\ b_valid[a] = 1 /\ b_valid[b] = 1
  /\ \E a \in Bufs : b_valid[a] = 1 /\ b_blockno[a] = 0

\* C7: bget panics only when every slot has refcnt >= 1.
C7_PanicOnlyWhenExhausted ==
  \A t \in Threads :
    tpc[t] = "panic" => \A b \in Bufs : b_refcnt[b] >= 1

\* C8: threads that load one uncached block all get the same slot, hold it
\* one after the other, read the disk exactly once between them, never
\* panic, and leave the slot with refcnt 0 once each has called brelse.
C8_ScenarioB ==
  /\ disk_reads <= 1
  /\ Cardinality(returned) <= 1
  /\ \A t \in Threads : tpc[t] # "panic"
  /\ \A t, u \in Threads :
       (t_b[t] # 0 /\ t_b[u] # 0) => t_b[t] = t_b[u]
  /\ \A t, u \in Threads :
       (t # u /\ tpc[t] \in {"bread", "holding"})
         => tpc[u] \notin {"bread", "holding"}
  /\ \A t \in Threads :
       tpc[t] = "holding" => b_valid[t_b[t]] = 1 /\ disk_reads = 1
  /\ (BQuiescent /\ returned # {}) =>
       /\ disk_reads = 1
       /\ \A b \in returned : b_refcnt[b] = 0 /\ b_lock[b] = NoThread

\* one thread holds the loaded slot while the other waits for its lock
C8_Witness ==
  \E t, u \in Threads :
    /\ tpc[t] = "holding"
    /\ tpc[u] = "sleep"
    /\ t_b[u] = t_b[t]
    /\ b_refcnt[t_b[t]] = 2
    /\ disk_reads = 1

\* C11: the buffer a thread gets back from bread(dev, blockno), before the
\* thread changes it, holds what was last written to that block with
\* bwrite, whether the block stayed cached or was evicted and read again.
C11_ReadAfterWrite ==
  \A t \in Threads :
    (tpc[t] = "holding" /\ ~t_dirty[t]) =>
      b_data[t_b[t]] = disk[<<t_dev[t], t_blockno[t]>>]

\* a block that was written with new contents has lost its slot and is
\* being loaded again: bget returned a slot with valid = 0 for it
C11_Witness ==
  \E t \in Threads :
    /\ tpc[t] = "bread"
    /\ b_valid[t_b[t]] = 0
    /\ disk[<<t_dev[t], t_blockno[t]>>] = 1
    /\ b_data[t_b[t]] = 0

\* the threads that have a slot back from bget and have not called brelse
HoldersOf(b) ==
  {t \in Threads : t_b[t] = b /\ tpc[t] \in {"bread", "holding", "bpin", "bwrite"}}

\* C12: at any time at most one thread has a given slot back from
\* bget/bread without having called brelse for it, and that thread holds the
\* slot's sleeplock; another thread asking for the same block stays in
\* acquiresleep until then.
C12_OneHolder ==
  \A b \in Bufs :
    /\ Cardinality(HoldersOf(b)) <= 1
    /\ \A t \in HoldersOf(b) : b_lock[b] = t

\* one thread holds a slot while another thread asked for the same block,
\* got the same slot from the hit scan and is waiting in acquiresleep
C12_Witness ==
  \E t, u \in Threads :
    /\ t # u
    /\ tpc[t] = "holding"
    /\ tpc[u] = "sleep"
    /\ t_b[u] = t_b[t]
    /\ t_dev[u] = t_dev[t]
    /\ t_blockno[u] = t_blockno[t]
    /\ b_refcnt[t_b[t]] = 2

\* what holds of the slot a thread has back from bread(dev, blockno)
LoadedFor(t) ==
  /\ b_dev[t_b[t]] = t_dev[t]
  /\ b_blockno[t_b[t]] = t_blockno[t]
  /\ b_valid[t_b[t]] = 1
  /\ b_refcnt[t_b[t]] >= 1
  /\ b_lock[t_b[t]] = t

\* the step in which bread returns reads the disk exactly when the slot
\* bget gave it had valid = 0
ReadIffInvalid ==
  \A t \in Threads :
    (tpc[t] = "bread" /\ tpc'[t] = "holding" /\ disk_reads < MaxReads) =>
      /\ b_valid[t_b[t]] = 0 => disk_reads' = disk_reads + 1
      /\ b_valid[t_b[t]] = 1 => disk_reads' = disk_reads

\* C13: the slot returned by bread(dev, blockno) has identity
\* (dev, blockno), valid = 1, refcnt >= 1 and its sleeplock held by the
\* caller, and bread reads the disk if and only if bget returned the slot
\* with valid = 0.
C13_LoadPostcondition ==
  /\ [](\A t \in Threads :
          tpc[t] \in {"holding", "bpin", "bwrite"} => LoadedFor(t))
  /\ [][ReadIffInvalid]_vars

\* bread(dev, 1) has returned a slot that was recycled for block 1 and read
\* from the disk once
C13_Witness ==
  \E t \in Threads :
    /\ tpc[t] = "holding"
    /\ t_blockno[t] = 1
    /\ LoadedFor(t)
    /\ disk_reads = 1

\* C14: when bget misses and the home bucket has a slot with refcnt 0
\* anywhere in its list, bget recycles a slot of the home bucket and does
\* not lock or take a slot from another bucket: a thread that has gone on to
\* the other buckets (home lock still held) left no idle slot behind.
C14_HomeBucketPreferred ==
  \A t \in Threads :
    tpc[t] = "evict" =>
      \A b \in Range(ListOf(t_bucket[t])) : b_refcnt[b] >= 1

\* the bucket lists, each in next order from its head
Lists == [k \in Buckets |-> ListOf(k)]

\* the list s with the slot b taken out
Without(s, b) == SelectSeq(s, LAMBDA x : x # b)

\* what the second half of brelse does to the lists
BrelseOrder(t) ==
  LET b == t_b[t]
      k == t_bucket[t]
  IN IF b_refcnt'[b] = 0
     THEN Lists' = [Lists EXCEPT ![k] = <<b>> \o Without(Lists[k], b)]
     ELSE Lists' = Lists

\* C15: brelse moves the slot to the head of its bucket's list exactly when
\* its refcnt drops to 0 and leaves every list as it was when refcnt stays
\* >= 1; a hit in bget, bpin and bunpin change no list.
C15_RecencyOnRelease ==
  [][\A t \in Threads :
       /\ (tpc[t] = "brelse" /\ tpc'[t] = "idle") => BrelseOrder(t)
       /\ (tpc[t] = "bget" /\ tpc'[t] = "sleep"
             /\ HitSlot(t_bucket[t], t_dev[t], t_blockno[t]) # 0)
          => Lists' = Lists
       /\ (tpc[t] # tpc'[t]
             /\ (tpc[t] \in {"bpin", "bunpin"} \/ tpc'[t] \in {"bpin", "bunpin"}))
          => Lists' = Lists]_vars

\* both slots are idle on bucket 0; slot 1, brought in at the head for
\* block 2, now comes after slot 2, which its brelse moved to the head
C15_Witness ==
  /\ BQuiescent
  /\ Lists[0] = <<2, 1>>
  /\ b_blockno[1] = 2
  /\ b_blockno[2] = 0
  /\ \A b \in Bufs : b_refcnt[b] = 0 /\ b_valid[b] = 1

\* C16: after binit the slots are spread over the buckets, so that no
\* bucket holds all of them while the others are empty; every slot is on
\* exactly one bucket list, has refcnt 0 and a free sleeplock.  (No thread
\* in a call and no slot ever returned by bget: the state binit leaves.)
C16_BinitDistributes ==
  (BQuiescent /\ returned = {}) =>
    /\ \A b \in Bufs :
         /\ Cardinality({k \in Buckets : b \in Range(ListOf(k))}) = 1
         /\ b_refcnt[b] = 0
         /\ b_lock[b] = NoThread
    /\ ~ \E k \in Buckets :
           /\ Range(ListOf(k)) = Bufs
           /\ \A j \in Buckets \ {k} : ListOf(j) = <<>>

\* a step in which thread t calls bwrite or brelse from outside any call and
\* ends in panic
MisusePanic(t) == tpc[t] = "idle" /\ tpc'[t] = "panic"

\* C17: bwrite(slot) or brelse(slot) by a thread that does not hold the
\* slot's sleeplock panics before any disk write, refcnt change, lock
\* release or relinking; a bwrite that succeeds changes neither the slot's
\* refcnt nor its place in its bucket.
C17_MisuseIsFatal ==
  [][\A t \in Threads :
       /\ MisusePanic(t) =>
            /\ b_lock[t_b'[t]] # t
            /\ UNCHANGED <<disk, b_data, b_valid, b_dev, b_blockno, b_refcnt,
                           b_lock, bucket_lock, b_next, b_prev>>
       /\ (tpc[t] = "holding" /\ tpc'[t] = "bwrite") => b_lock[t_b[t]] = t
       /\ (tpc[t] = "bwrite" /\ tpc'[t] = "holding") =>
            UNCHANGED <<b_refcnt, b_next, b_prev>>]_vars

\* a thread has panicked in bwrite or brelse of a slot that another thread
\* holds, and the holder's lock and reference are as they were
C17_Witness ==
  \E t, u \in Threads :
    /\ tpc[t] = "panic"
    /\ t_b[t] # 0
    /\ tpc[u] = "holding"
    /\ t_b[u] = t_b[t]
    /\ b_lock[t_b[t]] = u
    /\ b_refcnt[t_b[t]] = 1

\* C18: no thread waits for or takes a slot's sleeplock, or does disk I/O,
\* while it holds a bucket spinlock: on every return path of bget the
\* bucket locks are released before acquiresleep.
C18_NoSleepUnderSpinlock ==
  \A t \in Threads :
    tpc[t] \in {"sleep", "bread", "holding", "bwrite"} =>
      \A k \in Buckets : bucket_lock[k] # t

\* a thread that took a slot from another bucket, with both bucket locks
\* held on the way, is in acquiresleep and the slot's lock is taken
C18_Witness ==
  \E t \in Threads :
    /\ tpc[t] = "sleep"
    /\ b_valid[t_b[t]] = 0
    /\ t_bucket[t] = 1
    /\ b_lock[t_b[t]] # NoThread
    /\ \A k \in Buckets : bucket_lock[k] = NoThread

\* the buckets whose list the slot b is on
BucketsOf(b) == {k \in Buckets : b \in Range(ListOf(k))}

\* C19: whenever no thread holds a bucket lock, every slot is on exactly
\* one bucket list, the list of bucket[blockno % NBUCKET] for its current
\* blockno; so the bucket that brelse, bpin and bunpin lock, computed from
\* b->blockno, is the one whose list the slot is on.
C19_SlotInHomeBucket ==
  /\ (\A k \in Buckets : bucket_lock[k] = NoThread) =>
       \A b \in Bufs : BucketsOf(b) = {b_blockno[b] % NBUCKET}
  /\ \A t \in Threads :
       tpc[t] \in {"brelse", "bpin", "bunpin"} =>
         BucketsOf(t_b[t]) = {t_bucket[t]}

\* a slot taken from bucket 0 for a block of bucket 1 is on the list of
\* bucket 1, and its holder is in brelse about to lock bucket 1
C19_Witness ==
  \E t \in Threads :
    /\ tpc[t] = "brelse"
    /\ t_bucket[t] = 1
    /\ b_blockno[t_b[t]] % NBUCKET = 1
    /\ t_b[t] \in Range(ListOf(1))
    /\ \A k \in Buckets : bucket_lock[k] = NoThread

\* the threads that have the slot b from bget, waiting for its sleeplock or
\* holding it, and have not finished brelse
UsersOf(b) ==
  {t \in Threads :
     t_b[t] = b /\ tpc[t] \in {"sleep", "bread", "holding", "bwrite", "bpin", "brelse"}}

\* the pins of b that no bunpin has taken back yet
PinsOf(b) ==
  pins[b] + Cardinality({t \in Threads : t_b[t] = b /\ tpc[t] = "bunpin"})

\* C20: with every brelse after a bread and every bunpin after a bpin, a
\* slot's refcnt is the number of threads that have it from bget and have
\* not finished brelse plus the number of outstanding pins; it is never
\* negative and is 0 exactly when there is no such thread and no pin.
C20_RefcntAccounting ==
  \A b \in Bufs :
    /\ b_refcnt[b] = Cardinality(UsersOf(b)) + PinsOf(b)
    /\ b_refcnt[b] >= 0
    /\ b_refcnt[b] = 0 <=> (UsersOf(b) = {} /\ PinsOf(b) = 0)

\* a slot with a holder, a second thread waiting for its sleeplock and one
\* pin has refcnt 3
C20_Witness ==
  \E b \in Bufs : \E t, u \in Threads :
    /\ tpc[t] = "holding" /\ t_b[t] = b
    /\ tpc[u] = "sleep" /\ t_b[u] = b
    /\ pins[b] = 1
    /\ b_refcnt[b] = 3

====
